---------------------------- MODULE Spec2Model ----------------------------
(***************************************************************************)
(* A model of smithsonian_mcp_server/server.py: the credential resolver,   *)
(* the three HTTP adapter coroutines, the two response formatters and the  *)
(* call_tool dispatcher.                                                   *)
(*                                                                         *)
(* JSON documents and Python values are tagged records; a Python call      *)
(* either returns a value or raises, and both outcomes are values of the   *)
(* model (Return / Raise), so that whether a call raises is a state fact.  *)
(* A coroutine is split at its only suspension point, the await on         *)
(* client.get: Invoke runs call_tool up to it, Respond runs it from there. *)
(***************************************************************************)
EXTENDS Integers, Sequences, FiniteSets, TLC

VARIABLES
    env,              \* os.environ's SMITHSONIAN_API_KEY: [set, val]
    DEFAULT_API_KEY,  \* the module-level constant read at import (line 27)
    call,             \* the call_tool coroutine frames, one per call slot
    data,             \* the parsed JSON document handed to a formatter
    out               \* what each formatter did with data

vars == <<env, DEFAULT_API_KEY, call, data, out>>

-----------------------------------------------------------------------------
(* Bounds of the model.                                                    *)

\* call slots the transport host drives concurrently (SpecConc)
NCalls == 2
\* longest online_media.media list and longest free-text list (SpecFmt)
MaxMedia == 8

-----------------------------------------------------------------------------
(* Python values.                                                          *)

JNull == [k |-> "null"]
JBool(b) == [k |-> "bool", b |-> b]
JStr(s) == [k |-> "str", s |-> s]
JNum(n) == [k |-> "num", n |-> n]
JList(l) == [k |-> "list", l |-> l]
\* a dict keeps insertion order: keys[i] maps to vals[i]
JDict(keys, vals) == [k |-> "dict", keys |-> keys, vals |-> vals]
EmptyDict == JDict(<<>>, <<>>)
EmptyList == JList(<<>>)

IsDict(v) == v.k = "dict"
IsList(v) == v.k = "list"

\* type(v).__name__, as it appears in CPython's error messages
TypeName(v) ==
    CASE v.k = "null" -> "NoneType"
      [] v.k = "bool" -> "bool"
      [] v.k = "str"  -> "str"
      [] v.k = "num"  -> "int"
      [] v.k = "list" -> "list"
      [] v.k = "dict" -> "dict"

\* bool(v): what `if v:` and `not v` test
Truthy(v) ==
    CASE v.k = "null" -> FALSE
      [] v.k = "bool" -> v.b
      [] v.k = "str"  -> v.s # ""
      [] v.k = "num"  -> v.n # 0
      [] v.k = "list" -> Len(v.l) > 0
      [] v.k = "dict" -> Len(v.keys) > 0

RECURSIVE Join(_, _)
\* sep.join(lines)
Join(lines, sep) ==
    IF Len(lines) = 0 THEN ""
    ELSE IF Len(lines) = 1 THEN lines[1]
    ELSE lines[1] \o sep \o Join(Tail(lines), sep)

RECURSIVE PyRepr(_)
\* repr(v), used by str() of a container
PyRepr(v) ==
    CASE v.k = "null" -> "None"
      [] v.k = "bool" -> IF v.b THEN "True" ELSE "False"
      [] v.k = "str"  -> "'" \o v.s \o "'"
      [] v.k = "num"  -> ToString(v.n)
      [] v.k = "list" ->
            "[" \o Join([i \in 1..Len(v.l) |-> PyRepr(v.l[i])], ", ") \o "]"
      [] v.k = "dict" ->
            "{" \o Join([i \in 1..Len(v.keys) |->
                           "'" \o v.keys[i] \o "': " \o PyRepr(v.vals[i])], ", ")
                \o "}"

\* str(v), what an f-string writes for {v}
PyStr(v) == IF v.k = "str" THEN v.s ELSE PyRepr(v)

\* the outcome of a Python call: a returned value or a raised exception
Return(v) == [ok |-> TRUE, val |-> v]
Raise(exc, msg) == [ok |-> FALSE, exc |-> exc, msg |-> msg]

\* v.get(...) on something that is not a dict
NoGet(v) ==
    Raise("AttributeError", "'" \o TypeName(v) \o "' object has no attribute 'get'")

\* d.get(key, default) for a dict d
Get(d, key, default) ==
    IF \E i \in 1..Len(d.keys) : d.keys[i] = key
    THEN d.vals[CHOOSE i \in 1..Len(d.keys) : d.keys[i] = key]
    ELSE default

\* whether `for x in v` can start
Iterable(v) == v.k \in {"list", "str", "dict"}

\* the elements `for x in v` yields: a list's entries, a str's characters,
\* a dict's keys
IterElems(v) ==
    CASE v.k = "list" -> v.l
      [] v.k = "str"  -> [i \in 1..Len(v.s) |-> JStr(SubSeq(v.s, i, i))]
      [] v.k = "dict" -> [i \in 1..Len(v.keys) |-> JStr(v.keys[i])]

\* seq[:n]
Prefix(seq, n) == SubSeq(seq, 1, IF Len(seq) < n THEN Len(seq) ELSE n)

\* Slice with the bound forgotten: v[:] instead of v[:n]
SliceUnbounded(v, n) ==
    CASE v.k = "list" -> Return(JList(v.l))
      [] v.k = "str"  -> Return(JList(IterElems(v)))
      [] v.k = "dict" -> Raise("TypeError", "unhashable type: 'slice'")
      [] OTHER -> Raise("TypeError",
                        "'" \o TypeName(v) \o "' object is not subscriptable")

\* v[:n]: a list or a str can be sliced, nothing else can
Slice(v, n) ==
    CASE v.k = "list" -> Return(JList(Prefix(v.l, n)))
      [] v.k = "str"  -> Return(JList(Prefix(IterElems(v), n)))
      [] v.k = "dict" -> Raise("TypeError", "unhashable type: 'slice'")
      [] OTHER -> Raise("TypeError",
                        "'" \o TypeName(v) \o "' object is not subscriptable")

\* a > 0
GreaterThanZero(v) ==
    CASE v.k = "num"  -> Return(v.n > 0)
      [] v.k = "bool" -> Return(v.b)
      [] OTHER -> Raise("TypeError",
                        "'>' not supported between instances of '"
                        \o TypeName(v) \o "' and 'int'")

-----------------------------------------------------------------------------
(* The response formatters.  Each returns Return(<<line, ...>>) or the     *)
(* exception the Python code raises; the text is the lines joined by "\n". *)
(* The bullet the source writes (U+2022) is written "*" here.              *)

\* the body of the loop over response["rows"]
SearchItemLines(item) ==
    IF ~IsDict(item) THEN NoGet(item) ELSE
    LET title == Get(item, "title", JStr("Untitled"))
        item_id == Get(item, "id", JStr("Unknown ID"))
        unit_code == Get(item, "unitCode", JStr(""))
        head == <<"* " \o PyStr(title), "  ID: " \o PyStr(item_id)>>
                \o (IF Truthy(unit_code)
                    THEN <<"  Unit: " \o PyStr(unit_code)>> ELSE <<>>)
        content == Get(item, "content", EmptyDict)
        desc == Get(content, "descriptiveNonRepeating", EmptyDict)
        record_link == Get(desc, "record_link", JNull)
        link == IF IsDict(content) /\ IsDict(desc) /\ Truthy(record_link)
                THEN <<"  Link: " \o PyStr(record_link)>> ELSE <<>>
    IN  \* the chained .get of the online-media check tests no type
        IF ~IsDict(content) THEN NoGet(content) ELSE
        IF ~IsDict(desc) THEN NoGet(desc) ELSE
        LET online_media == Get(desc, "online_media", EmptyDict) IN
        IF ~(Truthy(online_media) /\ IsDict(online_media))
        THEN Return(head \o link \o <<"">>)
        ELSE LET media_count == Get(online_media, "mediaCount", JNum(0))
                 positive == GreaterThanZero(media_count)
             IN  IF ~positive.ok THEN positive
                 ELSE Return(head \o link
                             \o (IF positive.val
                                 THEN <<"  Online Media: " \o PyStr(media_count)
                                        \o " items available">>
                                 ELSE <<>>)
                             \o <<"">>)

RECURSIVE SearchRows(_, _, _)
\* the loop over response["rows"], from row i on, result_lines so far
SearchRows(items, i, result_lines) ==
    IF i > Len(items) THEN Return(result_lines)
    ELSE LET r == SearchItemLines(items[i])
         IN  IF ~r.ok THEN r
             ELSE SearchRows(items, i + 1, result_lines \o r.val)

\* result_lines of format_search_results
SearchLines(d) ==
    IF ~IsDict(d) THEN NoGet(d) ELSE
    LET response == Get(d, "response", EmptyDict) IN
    IF ~IsDict(response) THEN NoGet(response) ELSE
    LET rows_returned == Get(response, "rowCount", JNum(0))
        total_rows == Get(response, "rowCount", JNum(0))
        result_lines == <<"Found " \o PyStr(total_rows) \o " results",
                          "Showing " \o PyStr(rows_returned) \o " items:",
                          "">>
        rows == Get(response, "rows", EmptyList)
    IN  IF ~Iterable(rows)
        THEN Raise("TypeError",
                   "'" \o TypeName(rows) \o "' object is not iterable")
        ELSE SearchRows(IterElems(rows), 1, result_lines)

\* the str a formatter returns, with the result_lines it was joined from
Text(result_lines) ==
    [ok |-> TRUE, val |-> Join(result_lines, "\n"), lines |-> result_lines]

format_search_results(d) ==
    LET r == SearchLines(d)
    IN  IF r.ok THEN Text(r.val) ELSE r

\* how many entries of online_media["media"] are listed
MediaShown == 5
\* how many entries of one free-text field are listed
FreetextShown == 3

\* the body of the loop over the media entries: a non-dict is skipped
MediaLine(media) ==
    IF IsDict(media)
    THEN <<"  - " \o PyStr(Get(media, "type", JStr("Unknown"))) \o ": "
           \o PyStr(Get(media, "content", JStr("")))>>
    ELSE <<>>

RECURSIVE MediaLines(_)
\* the loop over the (already sliced) media entries
MediaLines(entries) ==
    IF Len(entries) = 0 THEN <<>>
    ELSE MediaLine(Head(entries)) \o MediaLines(Tail(entries))

\* the "Online Media:" block of format_item_details
OnlineMediaLines(desc) ==
    LET online_media == Get(desc, "online_media", EmptyDict) IN
    IF ~(Truthy(online_media) /\ IsDict(online_media)) THEN Return(<<>>) ELSE
    LET media_count == Get(online_media, "mediaCount", JNum(0))
        shown == Slice(Get(online_media, "media", EmptyList), MediaShown)
    IN  IF ~shown.ok THEN shown
        ELSE Return(<<"", "Online Media:",
                      "  Total Items: " \o PyStr(media_count)>>
                    \o MediaLines(shown.val.l))

\* the body of the loop over one free-text field's entries
FreetextItemLine(item) ==
    IF ~IsDict(item) THEN <<>>
    ELSE LET label == Get(item, "label", JStr(""))
             content_text == Get(item, "content", JStr(""))
         IN  IF Truthy(label)
             THEN <<"    " \o PyStr(label) \o ": " \o PyStr(content_text)>>
             ELSE <<"    " \o PyStr(content_text)>>

RECURSIVE FreetextItemLines(_)
FreetextItemLines(items) ==
    IF Len(items) = 0 THEN <<>>
    ELSE FreetextItemLine(Head(items)) \o FreetextItemLines(Tail(items))

RECURSIVE FreetextLines(_, _)
\* the loop over freetext.items(), from field i on
FreetextLines(freetext, i) ==
    IF i > Len(freetext.keys) THEN <<>>
    ELSE LET values == freetext.vals[i]
         IN  (IF IsList(values) /\ Truthy(values)
              THEN <<"  " \o freetext.keys[i] \o ":">>
                   \o FreetextItemLines(Prefix(values.l, FreetextShown))
              ELSE <<>>)
             \o FreetextLines(freetext, i + 1)

\* result_lines of format_item_details
ItemLines(d) ==
    IF ~IsDict(d) THEN NoGet(d) ELSE
    LET response == Get(d, "response", EmptyDict) IN
    IF ~IsDict(response) THEN NoGet(response) ELSE
    LET title == Get(response, "title", JStr("Untitled"))
        item_id == Get(response, "id", JStr("Unknown"))
        unit_code == Get(response, "unitCode", JStr(""))
        head == <<"Item Details:", "",
                  "Title: " \o PyStr(title), "ID: " \o PyStr(item_id)>>
                \o (IF Truthy(unit_code)
                    THEN <<"Unit: " \o PyStr(unit_code)>> ELSE <<>>)
                \o <<"">>
        content == Get(response, "content", EmptyDict)
    IN  IF ~IsDict(content) THEN Return(head) ELSE
        LET desc == Get(content, "descriptiveNonRepeating", EmptyDict)
            record_link == Get(desc, "record_link", JNull)
            data_source == Get(desc, "data_source", JNull)
            om == OnlineMediaLines(desc)
            described ==
                IF ~IsDict(desc) THEN Return(<<>>)
                ELSE IF ~om.ok THEN om
                ELSE Return((IF Truthy(record_link)
                             THEN <<"Record Link: " \o PyStr(record_link)>>
                             ELSE <<>>)
                            \o (IF Truthy(data_source)
                                THEN <<"Data Source: " \o PyStr(data_source)>>
                                ELSE <<>>)
                            \o om.val)
            freetext == Get(content, "freetext", EmptyDict)
        IN  IF ~described.ok THEN described
            ELSE Return(head \o described.val
                        \o (IF IsDict(freetext)
                            THEN <<"", "Additional Information:">>
                                 \o FreetextLines(freetext, 1)
                            ELSE <<>>))

format_item_details(d) ==
    LET r == ItemLines(d)
    IN  IF r.ok THEN Text(r.val) ELSE r

-----------------------------------------------------------------------------
(* The documents the formatters are applied to: every expected field is    *)
(* absent, of the expected shape, or of a wrong shape.                     *)

\* a key that the document does not hold
Absent == [k |-> "absent"]

RECURSIVE MkDict(_, _)
\* the dict holding keys[i]: vals[i] for every i whose value is not Absent
MkDict(keys, vals) ==
    IF Len(keys) = 0 THEN EmptyDict
    ELSE LET rest == MkDict(Tail(keys), Tail(vals))
         IN  IF Head(vals) = Absent THEN rest
             ELSE JDict(<<Head(keys)>> \o rest.keys, <<Head(vals)>> \o rest.vals)

\* values of a shape no field of the API is documented to have
WrongShapes == {JNull, JStr("x"), JNum(7), JList(<<JNum(1)>>)}

MediaEntry(i) ==
    JDict(<<"type", "content">>,
          <<JStr("Images"), JStr("https://ids.si.edu/ids/" \o ToString(i))>>)

\* a media list of n entries: all objects, none an object, or every other one
MediaList(n, pattern) ==
    JList([i \in 1..n |->
             IF pattern = "objects" \/ (pattern = "mixed" /\ i % 2 = 0)
             THEN MediaEntry(i) ELSE JStr("x")])

MediaVals ==
    {Absent, JNull, JNum(3), JStr("abcdefg"), EmptyDict}
    \cup {MediaList(n, p) : n \in 0..MaxMedia, p \in {"objects", "strings", "mixed"}}
    \cup {JList(<<EmptyDict>>)}

CountVals == {Absent, JNum(0), JNum(8), JStr("8"), JNull}

OnlineMediaVals ==
    WrongShapes \cup {Absent, EmptyDict}
    \cup {MkDict(<<"mediaCount", "media">>, <<c, m>>) :
             c \in CountVals, m \in MediaVals}

DescVals ==
    WrongShapes \cup {Absent}
    \cup {MkDict(<<"record_link", "data_source", "online_media">>, <<l, l, om>>) :
             l \in {Absent, JStr("NASM")}, om \in OnlineMediaVals}

FreetextItem(i, pattern) ==
    IF pattern = "labelled"
    THEN JDict(<<"label", "content">>, <<JStr("Notes"), JStr("n" \o ToString(i))>>)
    ELSE IF pattern = "bare"
    THEN JDict(<<"content">>, <<JStr("n" \o ToString(i))>>)
    ELSE JNum(i)

FreetextVals ==
    {Absent, JNull, JStr("x"), EmptyDict,
     JDict(<<"name">>, <<JStr("x")>>)}
    \cup {JDict(<<"notes", "date">>,
                <<JList([i \in 1..n |-> FreetextItem(i, p)]), EmptyList>>) :
             n \in {1, MaxMedia}, p \in {"labelled", "bare", "numbers"}}

ContentVals ==
    WrongShapes \cup {Absent}
    \cup {MkDict(<<"descriptiveNonRepeating", "freetext">>, <<d, f>>) :
             d \in DescVals, f \in FreetextVals}

\* a search row, or the response of an item request
ItemVals ==
    WrongShapes
    \cup {MkDict(<<"title", "id", "unitCode", "content">>, <<t, t, u, c>>) :
             t \in {Absent, JStr("Apollo 11")}, u \in {Absent, JStr("NASM")},
             c \in ContentVals}

RowsVals ==
    WrongShapes \cup {Absent, EmptyList, JStr(""), EmptyDict}
    \cup {JList(<<r>>) : r \in ItemVals}
    \cup {JList(<<MkDict(<<"title", "id">>, <<JStr("Apollo 11"), JStr("a")>>), r>>) :
             r \in WrongShapes}

SearchResponseVals ==
    WrongShapes \cup {Absent}
    \cup {MkDict(<<"rowCount", "rows">>, <<c, r>>) :
             c \in {Absent, JNum(3)}, r \in RowsVals}

\* the documents handed to a formatter: a dict, as the signature says
FmtDocs ==
    {MkDict(<<"response">>, <<r>>) : r \in SearchResponseVals \cup ItemVals}

-----------------------------------------------------------------------------
(* SpecFmt: the formatters applied to the documents of FmtDocs.            *)

\* the frames of a process in which no call was delivered
NoCalls == <<>>
NoEnv == [set |-> FALSE, val |-> ""]

InitFmt ==
    /\ data \in FmtDocs
    /\ out = <<>>
    /\ env = NoEnv
    /\ DEFAULT_API_KEY = ""
    /\ call = NoCalls

FormatSearch ==
    /\ "search" \notin DOMAIN out
    /\ out' = out @@ ("search" :> format_search_results(data))
    /\ UNCHANGED <<env, DEFAULT_API_KEY, call, data>>

FormatItem ==
    /\ "item" \notin DOMAIN out
    /\ out' = out @@ ("item" :> format_item_details(data))
    /\ UNCHANGED <<env, DEFAULT_API_KEY, call, data>>

NextFmt == FormatSearch \/ FormatItem

SpecFmt == InitFmt /\ [][NextFmt]_vars

-----------------------------------------------------------------------------
(* Claims about the formatters (SpecFmt).                                  *)

\* C3: for every malformed or partial document (a key missing, or a field
\* of the wrong type), format_search_results and format_item_details each
\* return a string and never raise.
C3_FormattersNeverRaise ==
    \A f \in DOMAIN out : out[f].ok

\* the value at response.content.descriptiveNonRepeating.online_media of
\* document d, Absent when the path to it does not exist
ItemOnlineMedia(d) ==
    IF ~IsDict(d) THEN Absent ELSE
    LET response == Get(d, "response", Absent) IN
    IF ~IsDict(response) THEN Absent ELSE
    LET content == Get(response, "content", Absent) IN
    IF ~IsDict(content) THEN Absent ELSE
    LET desc == Get(content, "descriptiveNonRepeating", Absent) IN
    IF ~IsDict(desc) THEN Absent
    ELSE Get(desc, "online_media", Absent)

\* its media field, Absent when there is none
ItemMedia(d) ==
    IF ~IsDict(ItemOnlineMedia(d)) THEN Absent
    ELSE Get(ItemOnlineMedia(d), "media", Absent)

\* the total-count line: the mediaCount field as written, 0 without one
ExpectedTotalLine(d) ==
    LET count == Get(ItemOnlineMedia(d), "mediaCount", Absent)
    IN  "  Total Items: " \o (IF count = Absent THEN "0" ELSE PyStr(count))

\* the index of the "Online Media:" line, 0 when there is none
OnlineMediaAt(lines) ==
    IF \E i \in 1..Len(lines) : lines[i] = "Online Media:"
    THEN CHOOSE i \in 1..Len(lines) : lines[i] = "Online Media:"
    ELSE 0

\* the lines that follow the total-count line, up to the next blank line
MediaLinesOf(lines) ==
    LET first == OnlineMediaAt(lines) + 2
        stop == CHOOSE j \in first..(Len(lines) + 1) :
                   /\ j = Len(lines) + 1 \/ lines[j] = ""
                   /\ \A i \in first..(j - 1) : lines[i] # ""
    IN  SubSeq(lines, first, stop - 1)

\* the type-and-URL line of media entry e
ExpectedMediaLine(e) ==
    "  - " \o (IF \E i \in 1..Len(e.keys) : e.keys[i] = "type"
               THEN PyStr(Get(e, "type", Absent)) ELSE "Unknown")
    \o ": " \o (IF \E i \in 1..Len(e.keys) : e.keys[i] = "content"
                THEN PyStr(Get(e, "content", Absent)) ELSE "")

Min(a, b) == IF a < b THEN a ELSE b

\* the entries among the first n of seq that are objects, in order
ObjectsAmongFirst(seq, n) ==
    SelectSeq(SubSeq(seq, 1, Min(Len(seq), n)), IsDict)

\* C9 as stated: for every item response whose online-media media list has
\* n entries, format_item_details emits the total-count line and exactly
\* min(n, 5) media lines, those of the first 5 entries in order.
C9_MediaLinesAreMinN5 ==
    ("item" \in DOMAIN out /\ IsList(ItemMedia(data))) =>
        LET media == ItemMedia(data).l
            shown == Min(Len(media), 5)
        IN  /\ out["item"].ok
            /\ OnlineMediaAt(out["item"].lines) > 0
            /\ out["item"].lines[OnlineMediaAt(out["item"].lines) + 1]
                  = ExpectedTotalLine(data)
            /\ Len(MediaLinesOf(out["item"].lines)) = shown
            /\ \A j \in 1..shown :
                  /\ IsDict(media[j])
                  /\ MediaLinesOf(out["item"].lines)[j] = ExpectedMediaLine(media[j])

\* C9, amended: for every item response whose online-media media list has
\* n entries, format_item_details emits the total-count line and one media
\* line for each of the first 5 entries that is an object, in order; that
\* is exactly min(n, 5) lines when every one of the first 5 is an object.
C9_MediaLinesOfObjects ==
    ("item" \in DOMAIN out /\ IsList(ItemMedia(data))) =>
        LET media == ItemMedia(data).l
            objects == ObjectsAmongFirst(media, 5)
            lines == out["item"].lines
        IN  /\ out["item"].ok
            /\ OnlineMediaAt(lines) > 0
            /\ lines[OnlineMediaAt(lines) + 1] = ExpectedTotalLine(data)
            /\ Len(MediaLinesOf(lines)) = Len(objects)
            /\ \A j \in 1..Len(objects) :
                  MediaLinesOf(lines)[j] = ExpectedMediaLine(objects[j])
            /\ (\A j \in 1..Min(Len(media), 5) : IsDict(media[j]))
                  => Len(MediaLinesOf(lines)) = Min(Len(media), 5)

\* an 8-entry list of objects was formatted into exactly 5 media lines
C9_Witness ==
    /\ "item" \in DOMAIN out
    /\ IsList(ItemMedia(data))
    /\ Len(ItemMedia(data).l) = 8
    /\ \A j \in 1..8 : IsDict(ItemMedia(data).l[j])
    /\ out["item"].ok
    /\ Len(MediaLinesOf(out["item"].lines)) = 5

-----------------------------------------------------------------------------
(* The credential resolver and the HTTP adapter.                           *)

SMITHSONIAN_API_BASE == "https://api.si.edu/openaccess/api/v1.0"

\* os.getenv(name, default) of a variable whose state is e
getenv(e, default) == IF e.set THEN e.val ELSE default

MissingKeyMessage ==
    "SMITHSONIAN_API_KEY environment variable is required. "
    \o "Get your free API key at https://api.data.gov/signup/"

\* get_api_key reading the variable with no default: os.getenv(NAME, "")
get_api_key_no_default ==
    LET api_key == getenv(env, "")
    IN  IF api_key = "" THEN Raise("ValueError", MissingKeyMessage)
        ELSE Return(api_key)

get_api_key ==
    LET api_key == getenv(env, DEFAULT_API_KEY)
    IN  IF api_key = "" THEN Raise("ValueError", MissingKeyMessage)
        ELSE Return(api_key)

\* the largest rows value sent upstream
MaxRows == 1000

\* min(rows, 1000) with the arguments' roles swapped: max(rows, 1000)
ClampRowsMax(rows) ==
    CASE rows.k = "num"  -> Return(IF rows.n > MaxRows THEN rows ELSE JNum(MaxRows))
      [] rows.k = "bool" -> Return(JNum(MaxRows))
      [] OTHER -> Raise("TypeError",
                        "'>' not supported between instances of 'int' and '"
                        \o TypeName(rows) \o "'")

\* min(rows, 1000)
ClampRows(rows) ==
    CASE rows.k = "num"  -> Return(IF MaxRows < rows.n THEN JNum(MaxRows) ELSE rows)
      [] rows.k = "bool" -> Return(rows)
      [] OTHER -> Raise("TypeError",
                        "'<' not supported between instances of 'int' and '"
                        \o TypeName(rows) \o "'")

\* a GET request: the URL and the query parameters
Request(url, params) == [url |-> url, params |-> params]
NoRequest == Request("", EmptyDict)

\* search_smithsonian up to its await: the request it sends, or what it raises
search_smithsonian(query, rows, start, online_media) ==
    LET api_key == get_api_key IN
    IF ~api_key.ok THEN api_key ELSE
    LET clamped == ClampRows(rows) IN
    IF ~clamped.ok THEN clamped
    ELSE Return(Request(SMITHSONIAN_API_BASE \o "/search",
                        MkDict(<<"api_key", "q", "rows", "start", "online_media_type">>,
                               <<JStr(api_key.val), query, clamped.val, start,
                                 IF Truthy(online_media) THEN JStr("Images")
                                 ELSE Absent>>)))

\* get_item_details up to its await
get_item_details(item_id) ==
    LET api_key == get_api_key IN
    IF ~api_key.ok THEN api_key
    ELSE Return(Request(SMITHSONIAN_API_BASE \o "/content/" \o PyStr(item_id),
                        MkDict(<<"api_key">>, <<JStr(api_key.val)>>)))

\* get_category_terms up to its await
get_category_terms(category, starts_with) ==
    LET api_key == get_api_key IN
    IF ~api_key.ok THEN api_key
    ELSE Return(Request(SMITHSONIAN_API_BASE \o "/terms/" \o PyStr(category),
                        MkDict(<<"api_key", "category", "starts_with">>,
                               <<JStr(api_key.val), category,
                                 IF Truthy(starts_with) THEN starts_with
                                 ELSE Absent>>)))

\* what the upstream, or the transport to it, answers to a GET
HttpResponse(status, body) ==
    [kind |-> "response", status |-> status, body |-> body, exc |-> "", msg |-> ""]
TransportError(exc, msg) ==
    [kind |-> "error", status |-> 0, body |-> JNull, exc |-> exc, msg |-> msg]
NoAnswer == [kind |-> "none", status |-> 0, body |-> JNull, exc |-> "", msg |-> ""]

\* a response body that is not a JSON document
NotJson == [k |-> "notjson"]

\* the message of the HTTPStatusError raised for a non-2xx status
StatusMessage(status, url) ==
    (CASE status \in 300..399 -> "Redirect response"
       [] status \in 400..499 -> "Client error"
       [] status \in 500..599 -> "Server error"
       [] OTHER -> "Informational response")
    \o " '" \o ToString(status) \o "' for url '" \o url \o "'"

\* an adapter coroutine from its await on: client.get returns or raises,
\* then raise_for_status(), then response.json()
AwaitGet(request, answer) ==
    IF answer.kind = "error" THEN Raise(answer.exc, answer.msg)
    ELSE IF answer.status \notin 200..299
    THEN Raise("HTTPStatusError", StatusMessage(answer.status, request.url))
    ELSE IF answer.body = NotJson
    THEN Raise("JSONDecodeError", "Expecting value: line 1 column 1 (char 0)")
    ELSE Return(answer.body)

\* leaving `async with httpx.AsyncClient` only by its last statement: the
\* client is closed by an explicit call that a raise skips
AsyncClientExitOnReturnOnly(conn, r) == IF r.ok THEN "closed" ELSE conn

\* leaving the `async with httpx.AsyncClient(...)` block, by return or raise
AsyncClientExit(conn, r) == "closed"

-----------------------------------------------------------------------------
(* call_tool.                                                              *)

TextContent(text) == [type |-> "text", text |-> text]

\* a validation that never finds the argument missing
NeverMissing(v) == FALSE

\* `if not query:` and its two siblings
Missing(v) == ~Truthy(v)

RequiredText(param) == "Error: " \o param \o " parameter is required"

\* the unknown-tool text, without the tool's name
UnknownToolNoName(name) == "Error: Unknown tool"

UnknownToolText(name) == "Error: Unknown tool '" \o name \o "'"

\* the text of the except branch, without the exception's message
ErrorTextNoMessage(msg) == "Error"

\* f"Error: {str(e)}"
ErrorText(msg) == "Error: " \o msg

\* the exception classes raised by the modelled code, all subclasses of
\* Exception
Exceptions ==
    {"ValueError", "AttributeError", "TypeError", "HTTPStatusError",
     "ConnectError", "ReadTimeout", "JSONDecodeError"}

\* `except httpx.HTTPError`
CaughtHTTPErrorOnly(exc) ==
    exc \in {"HTTPStatusError", "ConnectError", "ReadTimeout"}

\* `except Exception`
Caught(exc) == exc \in Exceptions

ToolNames == {"search_collection", "get_item", "get_category_terms"}

\* call_tool from its entry to the adapter call: the text it returns at
\* once, the exception it raises, or the adapter call it makes
Dispatch(name, arguments) ==
    IF name \notin ToolNames
    THEN [op |-> "text", text |-> UnknownToolText(name)]
    ELSE IF ~IsDict(arguments)
    THEN [op |-> "raise", r |-> NoGet(arguments)]
    ELSE CASE name = "search_collection" ->
                LET query == Get(arguments, "query", JNull)
                    rows == Get(arguments, "rows", JNum(10))
                    start == Get(arguments, "start", JNum(0))
                    online_media_only == Get(arguments, "online_media_only",
                                             JBool(FALSE))
                IN  IF Missing(query)
                    THEN [op |-> "text", text |-> RequiredText("query")]
                    ELSE [op |-> "adapter",
                          r |-> search_smithsonian(query, rows, start,
                                                   online_media_only)]
           [] name = "get_item" ->
                LET item_id == Get(arguments, "item_id", JNull)
                IN  IF Missing(item_id)
                    THEN [op |-> "text", text |-> RequiredText("item_id")]
                    ELSE [op |-> "adapter", r |-> get_item_details(item_id)]
           [] name = "get_category_terms" ->
                LET category == Get(arguments, "category", JNull)
                    starts_with == Get(arguments, "starts_with", JStr(""))
                IN  IF Missing(category)
                    THEN [op |-> "text", text |-> RequiredText("category")]
                    ELSE [op |-> "adapter",
                          r |-> get_category_terms(category, starts_with)]

RECURSIVE TermLines(_)
TermLines(terms) ==
    IF Len(terms) = 0 THEN <<>>
    ELSE <<"* " \o PyStr(Head(terms))>> \o TermLines(Tail(terms))

\* the formatting of the terms response, written out in call_tool
FormatTerms(category, d) ==
    IF ~IsDict(d) THEN NoGet(d) ELSE
    LET response == Get(d, "response", EmptyDict) IN
    IF ~IsDict(response) THEN NoGet(response) ELSE
    LET terms == Get(response, "terms", EmptyList) IN
    IF ~Iterable(terms)
    THEN Raise("TypeError", "'" \o TypeName(terms) \o "' object is not iterable")
    ELSE Text(<<"Available terms for '" \o PyStr(category) \o "':", "">>
              \o TermLines(IterElems(terms)))

\* call_tool from the adapter's return on: the matching formatter
Format(name, arguments, d) ==
    CASE name = "search_collection" -> format_search_results(d)
      [] name = "get_item" -> format_item_details(d)
      [] name = "get_category_terms" ->
            FormatTerms(Get(arguments, "category", JNull), d)

-----------------------------------------------------------------------------
(* The frames of call_tool and the steps of a call.                        *)

\* the frame of a call slot in which no call is running
IdleFrame ==
    [pc |-> "idle", name |-> "", arguments |-> JNull,
     lookups |-> 0,          \* calls of get_api_key made
     api_key |-> "",         \* the adapter's local api_key
     gets |-> 0,             \* GET requests issued
     conn |-> "none",        \* the call's AsyncClient: none, open, closed
     request |-> NoRequest,  \* the request awaited
     answer |-> NoAnswer,    \* what the await produced
     formatted |-> FALSE,    \* whether the formatter was invoked
     result |-> <<>>,        \* the content blocks returned
     escaped |-> ""]         \* the exception that left call_tool, if any

\* the return statements of call_tool
Returned(frame, text) ==
    [frame EXCEPT !.pc = "done", !.result = <<TextContent(text)>>]

\* an exception raised inside call_tool's try block
Excepted(frame, r) ==
    IF Caught(r.exc)
    THEN Returned(frame, ErrorText(r.msg))
    ELSE [frame EXCEPT !.pc = "done", !.escaped = r.exc]

\* a frame change that also leaves the awaited answer in every other frame,
\* as a module-level variable shared by the calls would
SetFrameShared(frames, c, frame) ==
    [d \in DOMAIN frames |->
        IF d = c THEN frame ELSE [frames[d] EXCEPT !.answer = frame.answer]]

\* the locals of call c's coroutine change; no other frame does
SetFrame(frames, c, frame) == [frames EXCEPT ![c] = frame]

\* the transport host delivers a call: call_tool runs to its first await,
\* or to its return when it does not reach one
Invoke(c, name, arguments) ==
    /\ call[c].pc = "idle"
    /\ LET d == Dispatch(name, arguments)
           frame == [IdleFrame EXCEPT !.name = name, !.arguments = arguments]
           looked == [frame EXCEPT !.lookups = 1,
                                   !.api_key = IF get_api_key.ok
                                               THEN get_api_key.val ELSE ""]
       IN  call' = SetFrame(call, c,
              CASE d.op = "text" -> Returned(frame, d.text)
                [] d.op = "raise" -> Excepted(frame, d.r)
                [] d.op = "adapter" ->
                      IF d.r.ok
                      THEN [looked EXCEPT !.pc = "awaiting", !.gets = 1,
                                          !.conn = "open", !.request = d.r.val]
                      ELSE Excepted(looked, d.r))
    /\ UNCHANGED <<env, DEFAULT_API_KEY, data, out>>

\* the await on client.get ends: the adapter finishes, the client is closed
\* and call_tool runs to its return
Respond(c, answer) ==
    /\ call[c].pc = "awaiting"
    /\ LET f == call[c]
           got == AwaitGet(f.request, answer)
           left == [f EXCEPT !.answer = answer,
                             !.conn = AsyncClientExit(f.conn, got)]
           text == Format(f.name, f.arguments, got.val)
       IN  call' = SetFrame(call, c,
              IF ~got.ok THEN Excepted(left, got)
              ELSE IF text.ok
              THEN Returned([left EXCEPT !.formatted = TRUE], text.val)
              ELSE Excepted([left EXCEPT !.formatted = TRUE], text))
    /\ UNCHANGED <<env, DEFAULT_API_KEY, data, out>>

\* the transport host has sent the result: the slot is free for a new call
Complete(c) ==
    /\ call[c].pc = "done"
    /\ call' = SetFrame(call, c, IdleFrame)
    /\ UNCHANGED <<env, DEFAULT_API_KEY, data, out>>

\* the states of the environment variable: unset, empty, or holding a key
EnvVals ==
    {[set |-> FALSE, val |-> ""], [set |-> TRUE, val |-> ""],
     [set |-> TRUE, val |-> "KEY-A"], [set |-> TRUE, val |-> "KEY-B"]}

\* the process changes its environment after the module was imported
EnvChange(e) ==
    /\ e # env
    /\ env' = e
    /\ UNCHANGED <<DEFAULT_API_KEY, call, data, out>>

\* the import of the module with n call slots: DEFAULT_API_KEY is read
Import(n) ==
    /\ env \in EnvVals
    /\ DEFAULT_API_KEY = getenv(env, "")
    /\ call = [c \in 1..n |-> IdleFrame]
    /\ data = JNull
    /\ out = <<>>

-----------------------------------------------------------------------------
(* Spec: one call at a time, over a wide set of names, arguments and       *)
(* upstream answers.                                                       *)

Names == ToolNames \cup {"anything_else", "list_tools"}

\* the rows arguments tried, on both sides of the clamp
RowsArgs == {-1, 0, 10, 999, 1000, 1001, 5000}

SearchArguments ==
    {MkDict(<<"query", "rows", "start", "online_media_only">>, <<q, r, s, o>>) :
        q \in {Absent, JStr(""), JStr("apollo 11")},
        r \in {Absent, JStr("many")} \cup {JNum(n) : n \in RowsArgs},
        s \in {Absent, JNum(0), JNum(5000)},
        o \in {Absent, JBool(TRUE), JBool(FALSE)}}

ItemArguments ==
    {MkDict(<<"item_id">>, <<i>>) :
        i \in {Absent, JNull, JStr(""), JStr("edanmdm-nasm_A19700102000")}}

TermsArguments ==
    {MkDict(<<"category", "starts_with">>, <<c, s>>) :
        c \in {Absent, JStr(""), JStr("topic")},
        s \in {Absent, JStr(""), JStr("a")}}

\* the argument values: a map, or something that is not a map
Arguments ==
    SearchArguments \cup ItemArguments \cup TermsArguments
    \cup {JNull, JList(<<JStr("query")>>)}

SearchDoc ==
    MkDict(<<"response">>,
           <<MkDict(<<"rowCount", "rows">>,
                    <<JNum(1),
                      JList(<<MkDict(<<"title", "id">>,
                                     <<JStr("Apollo 11"), JStr("a")>>)>>)>>)>>)

ItemDoc ==
    MkDict(<<"response">>,
      <<MkDict(<<"title", "content">>,
          <<JStr("Apollo 11"),
            MkDict(<<"descriptiveNonRepeating">>,
              <<MkDict(<<"online_media">>,
                  <<MkDict(<<"mediaCount", "media">>,
                           <<JNum(2), MediaList(2, "objects")>>)>>)>>)>>)>>)

TermsDoc ==
    MkDict(<<"response">>,
           <<MkDict(<<"terms">>, <<JList(<<JStr("Images"), JStr("Videos")>>)>>)>>)

\* a document no formatter and no terms loop can read
BadDoc ==
    MkDict(<<"response">>,
           <<MkDict(<<"rows", "content", "terms">>,
                    <<JList(<<JStr("x")>>), JStr("x"), JNum(7)>>)>>)

Answers ==
    {HttpResponse(200, b) :
        b \in {SearchDoc, ItemDoc, TermsDoc, BadDoc, JList(<<>>), NotJson}}
    \cup {HttpResponse(st, NotJson) : st \in {302, 404, 429, 500}}
    \cup {TransportError("ConnectError", "All connection attempts failed"),
          TransportError("ReadTimeout", "")}

Init == Import(1)

Next ==
    \/ \E c \in DOMAIN call, name \in Names, arguments \in Arguments :
          Invoke(c, name, arguments)
    \/ \E c \in DOMAIN call, answer \in Answers : Respond(c, answer)
    \/ \E c \in DOMAIN call : Complete(c)
    \/ \E e \in EnvVals : EnvChange(e)

Spec == Init /\ [][Next]_vars

-----------------------------------------------------------------------------
(* SpecConc: NCalls calls in flight at once, interleaved at their awaits.  *)

ConcNames == {"get_item", "search_collection", "anything_else"}

ConcArguments ==
    {EmptyDict,
     MkDict(<<"item_id">>, <<JStr("edanmdm-nasm_A19700102000")>>),
     MkDict(<<"query", "rows">>, <<JStr("apollo 11"), JNum(5000)>>)}

ConcAnswers ==
    {HttpResponse(200, ItemDoc), HttpResponse(200, SearchDoc),
     HttpResponse(404, NotJson), TransportError("ReadTimeout", "")}

InitConc == Import(NCalls)

NextConc ==
    \/ \E c \in DOMAIN call, name \in ConcNames, arguments \in ConcArguments :
          Invoke(c, name, arguments)
    \/ \E c \in DOMAIN call, answer \in ConcAnswers : Respond(c, answer)
    \/ \E c \in DOMAIN call : Complete(c)
    \/ \E e \in EnvVals : EnvChange(e)

SpecConc == InitConc /\ [][NextConc]_vars

-----------------------------------------------------------------------------
(* Claims about call_tool (Spec).                                          *)

\* the frames of the calls that were delivered and not yet forgotten
Delivered == {c \in DOMAIN call : call[c].pc # "idle"}
Done == {c \in DOMAIN call : call[c].pc = "done"}

\* C1: for every tool name, every argument value (a map with or without the
\* expected keys, or not a map) and every outcome of the adapter and the
\* formatter, call_tool returns a list of exactly one text block and no
\* exception leaves it.
C1_AlwaysOneTextBlock ==
    \A c \in Done :
        /\ call[c].escaped = ""
        /\ Len(call[c].result) = 1
        /\ call[c].result[1].type = "text"

\* a known tool was called with something that is not a map, and another
\* call's formatter raised on the document it was given: both returned text
C1_Witness ==
    \E c \in Done :
        /\ call[c].name \in ToolNames
        /\ \/ ~IsDict(call[c].arguments)
           \/ call[c].formatted /\ call[c].answer.body = BadDoc
        /\ Len(call[c].result) = 1

\* the required parameter of each tool
Required(name) ==
    CASE name = "search_collection" -> "query"
      [] name = "get_item" -> "item_id"
      [] name = "get_category_terms" -> "category"

HasKey(d, key) == \E i \in 1..Len(d.keys) : d.keys[i] = key

\* a call of a tool with an argument map that lacks its required parameter
LacksRequired(f) ==
    /\ f.name \in ToolNames
    /\ IsDict(f.arguments)
    /\ ~HasKey(f.arguments, Required(f.name))

\* C2: when the required argument of a tool is absent, call_tool returns
\* the single text block "Error: <parameter> parameter is required", and
\* that call looks up no credential and issues no network call.
C2_MissingArgumentText ==
    \A c \in Delivered :
        LacksRequired(call[c]) =>
            /\ call[c].pc = "done"
            /\ call[c].result =
                 <<[type |-> "text",
                    text |-> "Error: " \o Required(call[c].name)
                             \o " parameter is required"]>>
            /\ call[c].lookups = 0
            /\ call[c].gets = 0
            /\ call[c].conn = "none"

\* search_collection was called with {}
C2_Witness ==
    \E c \in Done :
        /\ call[c].name = "search_collection"
        /\ call[c].arguments = EmptyDict
        /\ call[c].result[1].text = "Error: query parameter is required"
        /\ call[c].gets = 0

\* what the adapter call of frame f raised or returned: before its await
\* (no request was sent) or after it
AdapterOutcome(f) ==
    IF f.gets = 0
    THEN IF f.api_key = "" THEN Raise("ValueError", MissingKeyMessage)
         ELSE ClampRows(Get(f.arguments, "rows", JNum(10)))
    ELSE AwaitGet(f.request, f.answer)

\* C4: whenever the adapter operation invoked by call_tool raises, the text
\* block returned is exactly "Error: " followed by the raised error's
\* message, and the formatter is not invoked for that call.
C4_AdapterErrorText ==
    \A c \in Done :
        (call[c].lookups = 1 /\ ~AdapterOutcome(call[c]).ok) =>
            /\ call[c].result =
                 <<[type |-> "text",
                    text |-> "Error: " \o AdapterOutcome(call[c]).msg]>>
            /\ ~call[c].formatted

\* get_item was answered 404; its text carries the status
C4_Witness ==
    \E c \in Done :
        /\ call[c].name = "get_item"
        /\ call[c].answer.kind = "response"
        /\ call[c].answer.status = 404
        /\ call[c].result[1].text =
             "Error: Client error '404' for url '" \o call[c].request.url \o "'"
        /\ ~call[c].formatted

\* C5: for every tool name other than the three tools, and every argument
\* value, call_tool returns the single text block
\* "Error: Unknown tool '<name>'", without reading the credential and
\* without issuing a network call.
C5_UnknownToolText ==
    \A c \in Delivered :
        call[c].name \notin {"search_collection", "get_item", "get_category_terms"} =>
            /\ call[c].pc = "done"
            /\ call[c].result =
                 <<[type |-> "text",
                    text |-> "Error: Unknown tool '" \o call[c].name \o "'"]>>
            /\ call[c].lookups = 0
            /\ call[c].gets = 0

\* an unknown tool was called with an argument value that is not a map
C5_Witness ==
    \E c \in Done :
        /\ call[c].name = "anything_else"
        /\ call[c].arguments = JNull
        /\ call[c].result[1].text = "Error: Unknown tool 'anything_else'"

\* the frames whose search request went upstream with an integer rows
SearchSent ==
    {c \in Delivered :
        /\ call[c].name = "search_collection"
        /\ call[c].gets = 1
        /\ Get(call[c].arguments, "rows", JNum(10)).k = "num"}

\* C6: for every integer rows argument, the rows parameter of the search
\* request sent upstream is min(rows, 1000), so never above 1000, and the
\* start argument is sent unchanged.
C6_RowsClamped ==
    \A c \in SearchSent :
        LET rows == Get(call[c].arguments, "rows", JNum(10)).n
            sent == call[c].request.params
        IN  /\ HasKey(sent, "rows")
            /\ Get(sent, "rows", Absent) = JNum(IF rows < 1000 THEN rows ELSE 1000)
            /\ Get(sent, "rows", Absent).n <= 1000
            /\ Get(sent, "start", Absent) = Get(call[c].arguments, "start", JNum(0))

\* rows = 5000 went upstream as 1000, start = 5000 as 5000
C6_Witness ==
    \E c \in SearchSent :
        /\ Get(call[c].arguments, "rows", Absent) = JNum(5000)
        /\ Get(call[c].arguments, "start", Absent) = JNum(5000)
        /\ Get(call[c].request.params, "rows", Absent) = JNum(1000)
        /\ Get(call[c].request.params, "start", Absent) = JNum(5000)

\* the step in which call c runs an adapter operation, and so the resolver
RunsAdapter(c) == call[c].pc = "idle" /\ call'[c].lookups = 1

\* the call failed with the missing-credential error and sent nothing
FailedMissingCredential(f) ==
    /\ f.pc = "done"
    /\ f.result =
         <<[type |-> "text",
            text |-> "Error: SMITHSONIAN_API_KEY environment variable is required. "
                     \o "Get your free API key at https://api.data.gov/signup/"]>>
    /\ f.gets = 0
    /\ f.conn = "none"

\* C7 as stated: whenever the variable is unset or empty when an adapter
\* operation runs, whatever it was at import, the resolver fails with the
\* missing-credential error and no request is issued; whenever it is set
\* and non-empty, the resolver returns its current value.
C7_FailsOnCurrentValue ==
    [][\A c \in DOMAIN call :
          RunsAdapter(c) =>
              IF ~env.set \/ env.val = ""
              THEN FailedMissingCredential(call'[c])
              ELSE call'[c].api_key = env.val]_vars

\* C7, amended: the resolver fails, and no request is issued, whenever the
\* variable is set to the empty string when the adapter operation runs, or
\* is unset then and was unset or empty at import; when it is unset but held
\* a key at import the resolver returns that key; whenever it is set and
\* non-empty the resolver returns its current value.
C7_FailsOnCurrentOrImportValue ==
    [][\A c \in DOMAIN call :
          RunsAdapter(c) =>
              IF env.set /\ env.val = "" THEN FailedMissingCredential(call'[c])
              ELSE IF env.set THEN call'[c].api_key = env.val
              ELSE IF DEFAULT_API_KEY = "" THEN FailedMissingCredential(call'[c])
              ELSE call'[c].api_key = DEFAULT_API_KEY /\ call'[c].api_key # ""]_vars

\* an adapter operation ran with the variable unset and failed
C7_Witness ==
    \E c \in Done :
        /\ call[c].lookups = 1
        /\ ~env.set
        /\ DEFAULT_API_KEY = ""
        /\ FailedMissingCredential(call[c])

\* C8: every tool call issues at most one GET; a failed attempt ends the
\* call and is not retried; the connection a call opened is released by
\* the time it returns, on success and on failure.
C8_State ==
    \A c \in DOMAIN call :
        /\ call[c].gets <= 1
        /\ call[c].pc = "awaiting" => call[c].gets = 1 /\ call[c].conn = "open"
        /\ call[c].pc = "done" =>
              call[c].conn = (IF call[c].gets = 1 THEN "closed" ELSE "none")

C8_Step ==
    \A c \in DOMAIN call :
        (call[c].pc = "awaiting" /\ call'[c] # call[c]) =>
            /\ call'[c].pc = "done"
            /\ call'[c].gets = 1

C8_OneGetConnectionReleased == []C8_State /\ [][C8_Step]_vars

\* a call whose only GET failed has returned with its connection closed
C8_Witness ==
    \E c \in Done :
        /\ call[c].gets = 1
        /\ call[c].answer.kind = "error"
        /\ call[c].conn = "closed"

-----------------------------------------------------------------------------
(* Claims about concurrent calls (SpecConc).                               *)

\* a step of one call changes no other call's frame
C10_OwnFrameOnly ==
    \A c, d \in DOMAIN call :
        (c # d /\ call'[c] # call[c]) => call'[d] = call[d]

\* what a call returned depends on its own name, arguments, credential and
\* upstream answer only: two calls that agree on these returned the same
C10_Determined ==
    \A c, d \in Done :
        (/\ call[c].name = call[d].name
         /\ call[c].arguments = call[d].arguments
         /\ call[c].api_key = call[d].api_key
         /\ call[c].answer = call[d].answer)
        => /\ call[c].result = call[d].result
           /\ call[c].escaped = call[d].escaped

\* C10: when calls are delivered concurrently, under every interleaving of
\* their suspension points the text block a call returns is determined by
\* its own name, arguments, credential and upstream answer, and no call
\* reads or writes state written by another call.
C10_CallsIndependent == []C10_Determined /\ [][C10_OwnFrameOnly]_vars

\* one call has its answer and has returned while another is suspended
C10_Witness ==
    \E c, d \in DOMAIN call :
        /\ call[c].pc = "done" /\ call[c].gets = 1
        /\ call[d].pc = "awaiting"
        /\ call[c].name = call[d].name
        /\ call[c].api_key # call[d].api_key

=============================================================================
